---- MODULE Spec2Model ----
(***************************************************************************)
(* College Fee Management System (main.py): the fee ledger kept in the     *)
(* SQLite file college_fee.db (tables students and payments), the database *)
(* helpers that read and write it, and the MainWindow handlers that call   *)
(* them.                                                                   *)
(*                                                                         *)
(* Money is modelled in whole units (integers); the REAL columns of the    *)
(* source hold Python floats.  Text typed into a QLineEdit is a string;    *)
(* strip() and float() are modelled by what they do on the texts of the    *)
(* input sets below.                                                       *)
(*                                                                         *)
(* Amounts that are not finite numbers (the texts "nan", "inf") are not    *)
(* typed.                                                                  *)
(*                                                                         *)
(* Four specifications share the definitions:                              *)
(*   Spec        one running window, every handler runs to completion,     *)
(*               the inputs chosen for the payment side;                   *)
(*   SpecForm    the same window, the inputs chosen for the student form;  *)
(*   SpecLedger  the database helpers called directly with any arguments;  *)
(*   SpecRace    two windows on the same database file, the payment        *)
(*               handler interleaved statement by statement.               *)
(***************************************************************************)
EXTENDS Integers, Sequences, FiniteSets, TLC

VARIABLES
    students,         \* table students: set of rows <<student_id, name, class, total_fee, photo_path>>
    payments,         \* table payments in insertion order: rows <<receipt_no, student_id, amount_paid, payment_date, mode_of_payment>>
    sqlite_sequence,  \* AUTOINCREMENT bookkeeping: the largest receipt_no ever assigned
    current_student,  \* per window: self.current_student, None or the fetched row
    photo_path,       \* per window: self.photo_path, NULL or the chosen file
    msg,              \* per window: title of the last QMessageBox shown
    pc,               \* per window: position inside record_payment_and_receipt (SpecRace)
    amt,              \* per window: local amt of record_payment_and_receipt (SpecRace)
    total_paid,       \* per window: local total_paid of get_total_due (SpecRace)
    remaining_fee     \* per window: local remaining_fee of record_payment_and_receipt (SpecRace)

vars == <<students, payments, sqlite_sequence, current_student, photo_path, msg,
          pc, amt, total_paid, remaining_fee>>

dbvars  == <<students, payments, sqlite_sequence>>
locvars == <<pc, amt, total_paid, remaining_fee>>

----------------------------------------------------------------------------
(* Bounds of the model *)

MaxPayments == 2      \* payment rows inserted in one behaviour (Spec, SpecLedger, SpecRace)
MaxFormPayments == 1  \* payment rows inserted in one behaviour of SpecForm
MaxFee == 2           \* largest total fee typed in Spec and SpecLedger

(* Python None / SQL NULL for a text value; None for a tuple or a number is <<>>, *)
(* a number n that may be None is <<n>>                                          *)
NULL == "NULL"
None == <<>>

Windows == {1, 2}
StudentIds == {"S1", "S2"}
Now == "2024-01-01 10:00:00"

\* PHOTO_DIR = "student_photos"
PHOTO_DIR == "student_photos"

----------------------------------------------------------------------------
(* Text handling *)

\* the amounts typed in Spec and SpecLedger: negative, zero, a part and the whole
\* of a fee
Amounts == {0 - 1, 0, 1, 2}

\* the numbers the typed texts stand for
Numbers == Amounts \cup (0 .. MaxFee)

\* str.strip(): removes the surrounding blanks of the texts the model types
strip(t) ==
    CASE t = " "    -> ""
      [] t = " S1 " -> "S1"
      [] t = " 1 "  -> "1"
      [] OTHER      -> t

\* the decimal text of each number, str(n)
NumberText == [n \in Numbers |-> ToString(n)]

\* float(text): <<n>> when the text is a number, None when it raises ValueError
float(t) ==
    IF \E n \in Numbers : NumberText[n] = t
    THEN <<CHOOSE n \in Numbers : NumberText[n] = t>>
    ELSE None

\* os.path.splitext(path)[1]
splitext(path) == IF path = "a.png" THEN ".png" ELSE ""

\* texts the input_total_fee field can hold: its QDoubleValidator(0.0, 99999999.0, 2)
\* refuses a leading minus and every letter but the exponent; an empty or
\* unfinished text ("1e") is Intermediate and stays in the field (typed in SpecForm)
FeeTexts == {NumberText[n] : n \in 0..MaxFee}

\* the texts of a fee field without the validator
FormFeeTextsUnvalidated == {"-1", "0", "1", "1e", "abc"}

\* the fee texts typed in SpecForm
FormFeeTexts == {"0", "1", "1e"}

\* texts the p_amount field can hold: it has no validator
AmountTexts == {NumberText[n] : n \in Amounts} \cup {"abc", " 1 "}

\* texts of the input_sid and p_sid fields
SidTexts == StudentIds \cup {"", " S1 "}

----------------------------------------------------------------------------
(* Database helpers *)

RECURSIVE SumAmounts(_)
\* SUM(amount_paid) over a non-empty sequence of rows
SumAmounts(rows) ==
    IF rows = <<>> THEN 0 ELSE rows[1][3] + SumAmounts(Tail(rows))

\* get_student: fetchone() of the SELECT on the primary key
get_student(student_id) ==
    IF \E r \in students : r[1] = student_id
    THEN CHOOSE r \in students : r[1] = student_id
    ELSE None

\* get_total_paid with the WHERE student_id=? left out
get_total_paid_unfiltered(student_id) ==
    IF payments = <<>> THEN 0 ELSE SumAmounts(payments)

\* get_total_paid: SELECT SUM(amount_paid) ... WHERE student_id=?, a NULL when no
\* row matches; row[0] or 0.0
get_total_paid(student_id) ==
    LET rows == SelectSeq(payments, LAMBDA r : r[2] = student_id)
        row0 == IF rows = <<>> THEN None ELSE <<SumAmounts(rows)>>
    IN  IF row0 = None \/ row0 = <<0>> THEN 0 ELSE row0[1]

\* get_total_due taking a total_fee of 0 when the student has no row
due_from_zero_when_missing(student_id, paid) ==
    LET result == {r \in students : r[1] = student_id}
    IN  IF result = {} THEN <<0 - paid>>
        ELSE <<(CHOOSE r \in result : TRUE)[4] - paid>>

\* the second half of get_total_due: the SELECT of total_fee, the return of None
\* when there is no row, and the subtraction
due_from(student_id, paid) ==
    LET result == {r \in students : r[1] = student_id}
    IN  IF result = {} THEN None
        ELSE <<(CHOOSE r \in result : TRUE)[4] - paid>>

\* get_total_due: <<total_due>>, or None when the student is not found
get_total_due(student_id) == due_from(student_id, get_total_paid(student_id))

\* INSERT OR REPLACE INTO students: the row with the same primary key goes, the
\* new row is stored (foreign keys are not enforced: no PRAGMA foreign_keys)
insert_or_replace(table, row) == {r \in table : r[1] # row[1]} \cup {row}

\* add_student_db on a schema whose foreign key deletes the payments of a replaced row
add_student_db_cascade(student_id, name, student_class, total_fee, photo) ==
    /\ students' = insert_or_replace(students,
                       <<student_id, name, student_class, total_fee, photo>>)
    /\ payments' = SelectSeq(payments, LAMBDA r : r[2] # student_id)
    /\ UNCHANGED sqlite_sequence

\* add_student_db on a schema whose primary key is name: the row replaced is the
\* one with the same name
add_student_db_key_name(student_id, name, student_class, total_fee, photo) ==
    /\ students' = {r \in students : r[2] # name}
                     \cup {<<student_id, name, student_class, total_fee, photo>>}
    /\ UNCHANGED <<payments, sqlite_sequence>>

\* add_student_db: the INSERT OR REPLACE and the commit
add_student_db(student_id, name, student_class, total_fee, photo) ==
    /\ students' = insert_or_replace(students,
                       <<student_id, name, student_class, total_fee, photo>>)
    /\ UNCHANGED <<payments, sqlite_sequence>>

\* add_payment_db numbering the receipts of each student from 1
add_payment_db_per_student(student_id, amount_paid, payment_date, mode) ==
    LET receipt_no == Len(SelectSeq(payments, LAMBDA r : r[2] = student_id)) + 1
    IN  /\ payments' = Append(payments,
                              <<receipt_no, student_id, amount_paid, payment_date, mode>>)
        /\ sqlite_sequence' = sqlite_sequence + 1
        /\ UNCHANGED students

\* add_payment_db: INSERT with receipt_no INTEGER PRIMARY KEY AUTOINCREMENT, which
\* is one more than the largest receipt_no ever assigned; returns c.lastrowid
add_payment_db(student_id, amount_paid, payment_date, mode) ==
    LET receipt_no == sqlite_sequence + 1
    IN  /\ payments' = Append(payments,
                              <<receipt_no, student_id, amount_paid, payment_date, mode>>)
        /\ sqlite_sequence' = receipt_no
        /\ UNCHANGED students

----------------------------------------------------------------------------
(* State after init_db() on a new file and MainWindow() *)

Init ==
    /\ students = {}
    /\ payments = <<>>
    /\ sqlite_sequence = 0
    /\ current_student = [w \in Windows |-> None]
    /\ photo_path = [w \in Windows |-> NULL]
    /\ msg = [w \in Windows |-> ""]
    /\ pc = [w \in Windows |-> "idle"]
    /\ amt = [w \in Windows |-> 0]
    /\ total_paid = [w \in Windows |-> 0]
    /\ remaining_fee = [w \in Windows |-> None]

----------------------------------------------------------------------------
(* MainWindow handlers, each run to completion *)

\* browse_photo: path is "" when the file dialog is cancelled
browse_photo(w, path) ==
    /\ pc[w] = "idle"
    /\ photo_path' = IF path # "" THEN [photo_path EXCEPT ![w] = path] ELSE photo_path
    /\ UNCHANGED <<dbvars, current_student, msg, locvars>>

\* the photo_dest save_student passes to add_student_db: the copy in PHOTO_DIR, or
\* None when no photo was chosen or shutil.copy2 failed
photo_dest(w, sid, copy_ok) ==
    IF photo_path[w] # NULL /\ copy_ok
    THEN PHOTO_DIR \o "/" \o sid \o splitext(photo_path[w])
    ELSE NULL

save_student(w, sid_text, name_text, class_text, total_fee_text, copy_ok) ==
    LET sid == strip(sid_text)
        name == strip(name_text)
        sclass == strip(class_text)
        fee_text == strip(total_fee_text)
        total_fee == float(fee_text)
    IN  /\ pc[w] = "idle"
        /\ IF sid = "" \/ name = "" \/ fee_text = "" \/ total_fee = None
           THEN /\ msg' = [msg EXCEPT ![w] = "Validation"]
                /\ UNCHANGED <<dbvars, photo_path>>
           ELSE /\ add_student_db(sid, name, sclass, total_fee[1], photo_dest(w, sid, copy_ok))
                /\ msg' = [msg EXCEPT ![w] = "Saved"]
                /\ photo_path' = [photo_path EXCEPT ![w] = NULL]
        /\ UNCHANGED <<current_student, locvars>>

fetch_student_for_payment(w, sid_text) ==
    LET sid == strip(sid_text)
        student == get_student(sid)
    IN  /\ pc[w] = "idle"
        /\ IF sid = ""
           THEN /\ msg' = [msg EXCEPT ![w] = "Input"]
                /\ UNCHANGED current_student
           ELSE IF student = None
           THEN /\ msg' = [msg EXCEPT ![w] = "Not found"]
                /\ UNCHANGED current_student
           ELSE /\ current_student' = [current_student EXCEPT ![w] = student]
                /\ UNCHANGED msg
        /\ UNCHANGED <<dbvars, photo_path, locvars>>

\* record_payment_and_receipt comparing the amount with the total_fee of the
\* fetched row instead of get_total_due
record_payment_guard_on_total_fee(w, amount_text, mode, now) ==
    LET amt_text == strip(amount_text)
        a == float(amt_text)
        sid == current_student[w][1]
    IN  /\ pc[w] = "idle"
        /\ IF current_student[w] = None
           THEN /\ msg' = [msg EXCEPT ![w] = "No student"]
                /\ UNCHANGED <<dbvars, current_student>>
           ELSE IF amt_text = "" \/ a = None
           THEN /\ msg' = [msg EXCEPT ![w] = "Input"]
                /\ UNCHANGED <<dbvars, current_student>>
           ELSE IF a[1] > current_student[w][4]
           THEN /\ msg' = [msg EXCEPT ![w] = "Invalid Payment"]
                /\ UNCHANGED <<dbvars, current_student>>
           ELSE /\ add_payment_db(sid, a[1], now, mode)
                /\ msg' = [msg EXCEPT ![w] = "Success"]
                /\ current_student' = [current_student EXCEPT ![w] = None]
        /\ UNCHANGED <<photo_path, locvars>>

\* record_payment_and_receipt; after the INSERT the handler only reads the
\* database (get_last_payment, generate_receipt_pdf) and clears its fields
record_payment_and_receipt(w, amount_text, mode, now) ==
    LET amt_text == strip(amount_text)
        a == float(amt_text)
        sid == current_student[w][1]
        due == get_total_due(sid)
    IN  /\ pc[w] = "idle"
        /\ IF current_student[w] = None
           THEN /\ msg' = [msg EXCEPT ![w] = "No student"]
                /\ UNCHANGED <<dbvars, current_student>>
           ELSE IF amt_text = "" \/ a = None
           THEN /\ msg' = [msg EXCEPT ![w] = "Input"]
                /\ UNCHANGED <<dbvars, current_student>>
           ELSE IF due = None
           THEN \* amt > None raises TypeError: the handler ends there
                /\ msg' = [msg EXCEPT ![w] = "TypeError"]
                /\ UNCHANGED <<dbvars, current_student>>
           ELSE IF a[1] > due[1]
           THEN /\ msg' = [msg EXCEPT ![w] = "Invalid Payment"]
                /\ UNCHANGED <<dbvars, current_student>>
           ELSE /\ add_payment_db(sid, a[1], now, mode)
                /\ msg' = [msg EXCEPT ![w] = "Success"]
                /\ current_student' = [current_student EXCEPT ![w] = None]
        /\ UNCHANGED <<photo_path, locvars>>

----------------------------------------------------------------------------
(* Spec: the single-user application, one window, the ledger side *)

Next ==
    \/ \E s \in StudentIds, f \in FeeTexts : save_student(1, s, "A", "X", f, TRUE)
    \/ \E s \in SidTexts : fetch_student_for_payment(1, s)
    \/ /\ \E t \in AmountTexts : record_payment_and_receipt(1, t, "Cash", Now)
       /\ Len(payments') <= MaxPayments

Spec == Init /\ [][Next]_vars

----------------------------------------------------------------------------
(* SpecForm: the single-user application, one window, the student form side *)

NextForm ==
    \/ \E path \in {"", "a.png"} : browse_photo(1, path)
    \/ \E s \in StudentIds \cup {""}, n \in {"A", "B"}, f \in FormFeeTexts, ok \in BOOLEAN :
          save_student(1, s, n, "X", f, ok)
    \/ \E s \in StudentIds : fetch_student_for_payment(1, s)
    \/ /\ \E t \in {"1", "2"}, m \in {"Cash", "UPI"} : record_payment_and_receipt(1, t, m, Now)
       /\ Len(payments') <= MaxFormPayments

SpecForm == Init /\ [][NextForm]_vars

----------------------------------------------------------------------------
(* SpecLedger: the database helpers called directly, with any arguments *)

call_add_student_db(student_id, name, student_class, total_fee, photo) ==
    /\ add_student_db(student_id, name, student_class, total_fee, photo)
    /\ UNCHANGED <<current_student, photo_path, msg, locvars>>

call_add_payment_db(student_id, amount_paid, payment_date, mode) ==
    /\ add_payment_db(student_id, amount_paid, payment_date, mode)
    /\ UNCHANGED <<current_student, photo_path, msg, locvars>>

NextLedger ==
    \/ \E s \in StudentIds, n \in {"A", "B"}, f \in (0 - 1)..MaxFee :
          call_add_student_db(s, n, "X", f, NULL)
    \/ /\ \E s \in StudentIds, a \in (0 - 1)..MaxFee : call_add_payment_db(s, a, Now, "Cash")
       /\ Len(payments') <= MaxPayments

SpecLedger == Init /\ [][NextLedger]_vars

----------------------------------------------------------------------------
(* SpecRace: two windows (two running copies of the program) on the same     *)
(* college_fee.db.  Every SQL statement is atomic; the statements of         *)
(* record_payment_and_receipt of the two windows interleave.                 *)

\* lines 370-382: the checks before the database is read
rp_begin(w, amount_text) ==
    LET amt_text == strip(amount_text)
        a == float(amt_text)
    IN  /\ pc[w] = "idle"
        /\ IF current_student[w] = None
           THEN /\ msg' = [msg EXCEPT ![w] = "No student"]
                /\ UNCHANGED <<pc, amt>>
           ELSE IF amt_text = "" \/ a = None
           THEN /\ msg' = [msg EXCEPT ![w] = "Input"]
                /\ UNCHANGED <<pc, amt>>
           ELSE /\ amt' = [amt EXCEPT ![w] = a[1]]
                /\ pc' = [pc EXCEPT ![w] = "get_total_paid"]
                /\ UNCHANGED msg
        /\ UNCHANGED <<dbvars, current_student, photo_path, total_paid, remaining_fee>>

\* line 91: the first SELECT of get_total_due
rp_get_total_paid(w) ==
    /\ pc[w] = "get_total_paid"
    /\ total_paid' = [total_paid EXCEPT ![w] = get_total_paid(current_student[w][1])]
    /\ pc' = [pc EXCEPT ![w] = "get_total_fee"]
    /\ UNCHANGED <<dbvars, current_student, photo_path, msg, amt, remaining_fee>>

\* lines 94-103 and 383-390: the second SELECT of get_total_due and the guard
rp_get_total_fee(w) ==
    LET due == due_from(current_student[w][1], total_paid[w])
    IN  /\ pc[w] = "get_total_fee"
        /\ remaining_fee' = [remaining_fee EXCEPT ![w] = due]
        /\ IF due = None
           THEN /\ msg' = [msg EXCEPT ![w] = "TypeError"]
                /\ pc' = [pc EXCEPT ![w] = "idle"]
           ELSE IF amt[w] > due[1]
           THEN /\ msg' = [msg EXCEPT ![w] = "Invalid Payment"]
                /\ pc' = [pc EXCEPT ![w] = "idle"]
           ELSE /\ pc' = [pc EXCEPT ![w] = "add_payment_db"]
                /\ UNCHANGED msg
        /\ UNCHANGED <<dbvars, current_student, photo_path, amt, total_paid>>

\* the INSERT step reading the due again and refusing an amount above it
rp_add_payment_db_rechecked(w, mode, now) ==
    LET sid == current_student[w][1]
        due == get_total_due(sid)
    IN  /\ pc[w] = "add_payment_db"
        /\ IF due # None /\ amt[w] > due[1]
           THEN /\ msg' = [msg EXCEPT ![w] = "Invalid Payment"]
                /\ UNCHANGED <<dbvars, current_student>>
           ELSE /\ add_payment_db(sid, amt[w], now, mode)
                /\ msg' = [msg EXCEPT ![w] = "Success"]
                /\ current_student' = [current_student EXCEPT ![w] = None]
        /\ pc' = [pc EXCEPT ![w] = "idle"]
        /\ UNCHANGED <<photo_path, amt, total_paid, remaining_fee>>

\* lines 391-404: the INSERT and the end of the handler
rp_add_payment_db(w, mode, now) ==
    /\ pc[w] = "add_payment_db"
    /\ add_payment_db(current_student[w][1], amt[w], now, mode)
    /\ msg' = [msg EXCEPT ![w] = "Success"]
    /\ current_student' = [current_student EXCEPT ![w] = None]
    /\ pc' = [pc EXCEPT ![w] = "idle"]
    /\ UNCHANGED <<photo_path, amt, total_paid, remaining_fee>>

NextRace ==
    \E w \in Windows :
        \/ \E f \in {"1", "2"} : save_student(w, "S1", "A", "X", f, TRUE)
        \/ \E s \in {"S1", "S2"} : fetch_student_for_payment(w, s)
        \/ /\ Len(payments) + Cardinality({v \in Windows : pc[v] # "idle"}) < MaxPayments
           /\ \E t \in {"1", "2", "abc"} : rp_begin(w, t)
        \/ rp_get_total_paid(w)
        \/ rp_get_total_fee(w)
        \/ rp_add_payment_db(w, "Cash", Now)

SpecRace == Init /\ [][NextRace]_vars

----------------------------------------------------------------------------
(* The properties checked *)

RECURSIVE SumAt(_)
\* the sum of amount_paid over a set of positions of the payments table
SumAt(positions) ==
    IF positions = {} THEN 0
    ELSE LET i == CHOOSE i \in positions : TRUE
         IN  payments[i][3] + SumAt(positions \ {i})

\* the sum of amount_paid over the stored payment rows of a student, 0 when none
PaidBy(student_id) == SumAt({i \in 1..Len(payments) : payments[i][2] = student_id})

HasPayment(student_id) == \E i \in 1..Len(payments) : payments[i][2] = student_id

\* C1: for every student in the students table, get_total_due is the stored
\* total_fee minus the sum of amount_paid of the payment rows of that student.
C1_TotalDueIsFeeMinusPaid ==
    \A r \in students : get_total_due(r[1]) = <<r[4] - PaidBy(r[1])>>

\* two students with payments of their own, after a student was saved again
C1_Witness ==
    /\ msg[1] = "Saved"
    /\ \E r1 \in students, r2 \in students :
          /\ r1[1] # r2[1]
          /\ PaidBy(r1[1]) > 0
          /\ PaidBy(r2[1]) > 0

\* C2: in every reachable state of the single-user application the payments of a
\* student never sum to more than the student's stored total_fee.
C2_PaidNeverExceedsFee ==
    \A r \in students : PaidBy(r[1]) <= r[4]

\* C3: the receipt numbers of the payments table are strictly increasing in
\* insertion order (hence pairwise distinct), and no step changes or drops a row
\* already stored, so a receipt number stays with its payment.
C3_ReceiptNumbersIncreaseAndStay ==
    /\ [](\A i \in 1..Len(payments), j \in 1..Len(payments) :
              i < j => payments[i][1] < payments[j][1])
    /\ [][\A i \in 1..Len(payments) :
              Len(payments') >= i /\ payments'[i] = payments[i]]_vars

\* payments of two different students, and a rejected attempt after them
C3_Witness ==
    /\ Len(payments) = 2
    /\ payments[1][2] # payments[2][2]
    /\ msg[1] = "Invalid Payment"

\* C4: in every reachable state, every run of record_payment_and_receipt with an
\* amount greater than get_total_due of the fetched student shows
\* "Invalid Payment" and leaves the payments table, the students table (hence the
\* due amount) and the receipt counter as they were; receipt numbers are therefore
\* consecutive over the accepted payments: the k-th stored payment has receipt k.
C4_OverpaymentRejected ==
    /\ \A i \in 1..Len(payments) : payments[i][1] = i
    /\ \A t \in AmountTexts :
          (/\ current_student[1] # None
           /\ float(strip(t)) # None
           /\ get_total_due(current_student[1][1]) # None
           /\ float(strip(t))[1] > get_total_due(current_student[1][1])[1])
          => ~ ENABLED (/\ record_payment_and_receipt(1, t, "Cash", Now)
                        /\ ~ (/\ payments' = payments
                              /\ sqlite_sequence' = sqlite_sequence
                              /\ students' = students
                              /\ current_student' = current_student
                              /\ msg'[1] = "Invalid Payment"))

\* a part payment was accepted with receipt 1, then an attempt above the remaining
\* due was rejected: the student is still fetched and still owes the rest
C4_Witness ==
    /\ msg[1] = "Invalid Payment"
    /\ Len(payments) = 1
    /\ payments[1][1] = 1
    /\ payments[1][3] > 0
    /\ current_student[1] # None
    /\ current_student[1][1] = payments[1][2]
    /\ get_total_due(current_student[1][1]) = <<1>>

\* C5: every stored payment row has amount_paid > 0 (an attempt with an amount
\* of zero or less stores nothing).
C5_StoredAmountsPositive ==
    \A i \in 1..Len(payments) : payments[i][3] > 0

\* C6: in every reachable state, every run of save_student for an id that is
\* already in the students table leaves exactly one row for that id,
\* holding the new name, class, total_fee and photo_path, leaves the rows of the
\* other ids alone and leaves the payments table unchanged.
C6_UpsertReplacesStudentOnly ==
    \A s \in StudentIds, n \in {"A", "B"}, f \in FormFeeTexts, ok \in BOOLEAN :
        (float(f) # None /\ get_student(s) # None)
        => ~ ENABLED (/\ save_student(1, s, n, "X", f, ok)
                      /\ ~ (/\ payments' = payments
                            /\ sqlite_sequence' = sqlite_sequence
                            /\ {r \in students' : r[1] = s}
                                 = {<<s, n, "X", float(f)[1], photo_dest(1, s, ok)>>}
                            /\ {r \in students' : r[1] # s}
                                 = {r \in students : r[1] # s}))

\* a student with a payment was saved again: the row fetched before the save
\* differs from the stored row in name, total_fee and photo_path
C6_Witness ==
    /\ msg[1] = "Saved"
    /\ current_student[1] # None
    /\ HasPayment(current_student[1][1])
    /\ \E r \in students :
          /\ r[1] = current_student[1][1]
          /\ r[2] # current_student[1][2]
          /\ r[4] # current_student[1][4]
          /\ r[5] # current_student[1][5]

C8_UnknownStudentIsNone ==
    \A s \in StudentIds :
        IF \E r \in students : r[1] = s
        THEN /\ get_total_due(s) # None
             /\ Len(get_total_due(s)) = 1
             /\ get_total_due(s)[1] \in Int
        ELSE get_total_due(s) = None

\* one id has payment rows and no student row, another student owes exactly 0
C8_Witness ==
    \E s \in StudentIds, r \in students :
        /\ get_student(s) = None
        /\ HasPayment(s)
        /\ PaidBy(s) # 0
        /\ get_total_due(r[1]) = <<0>>

\* C9: with two windows on one database the guard and the INSERT are separate
\* steps: a window that has passed the guard holds an amount not above the due it
\* read, and its INSERT step stores that amount without looking at the table again.
C9_GuardNotAtomicWithInsert ==
    /\ [](\A w \in Windows :
              pc[w] = "add_payment_db"
              => remaining_fee[w] # None /\ amt[w] <= remaining_fee[w][1])
    /\ [][\A w \in Windows :
              (pc[w] = "add_payment_db" /\ pc'[w] = "idle")
              => payments' = Append(payments, <<sqlite_sequence + 1, current_student[w][1],
                                                amt[w], Now, "Cash">>)]_vars

\* both windows inserted a payment for the same student, each not above the due
\* it read, and together they exceed the largest total_fee the student ever had
C9_Witness ==
    /\ \A w \in Windows :
          /\ pc[w] = "idle"
          /\ msg[w] = "Success"
          /\ remaining_fee[w] # None
          /\ amt[w] <= remaining_fee[w][1]
    /\ Len(payments) = 2
    /\ {payments[1][3], payments[2][3]} = {amt[1], amt[2]}
    /\ \E r \in students :
          /\ payments[1][2] = r[1]
          /\ payments[2][2] = r[1]
          /\ r[4] = 2
          /\ PaidBy(r[1]) > r[4]

\* C10: every stored payment row carries the id of a row of the students table.
C10_NoOrphanPayment ==
    \A i \in 1..Len(payments) : \E r \in students : r[1] = payments[i][2]

\* a fetch of an unknown id failed while an earlier fetched student is still
\* current, and payments are stored
C10_Witness ==
    /\ msg[1] = "Not found"
    /\ current_student[1] # None
    /\ Len(payments) >= 1
    /\ \E s \in StudentIds : get_student(s) = None
====
